---- MODULE Spec2Model ----
(***************************************************************************)
(* Model of generate-icon.py: one run of the script is a straight-line     *)
(* sequence of steps (allocate the canvas, paint the gradient row by row,  *)
(* resolve a font, measure and draw "MB", save the PNG, print the next     *)
(* steps).  The file system outlives a run, so the model lets the script   *)
(* be invoked again (StartRun) against the files the previous run left.    *)
(*                                                                         *)
(* The canvas is kept as one colour per row: every drawing call of the     *)
(* gradient loop paints a whole row (draw.line from x = 0 to x = width).   *)
(* The text is kept as an overlay (font and position): the glyph shapes    *)
(* belong to the font, not to the script.                                  *)
(***************************************************************************)
EXTENDS Integers, Sequences, FiniteSets, TLC

\* Number of successive invocations of the script the model follows.
MaxRuns == 2

\* line 11: width = height = 1024
width == 1024
height == 1024

\* lines 16-17
light_orange == <<255, 136, 0>>
dark_orange == <<255, 85, 0>>

\* line 12: Image.new('RGB', ...) with no colour given starts black
black == <<0, 0, 0>>

\* line 29
text == "MB"

\* line 41: the size passed to ImageFont.truetype
font_size == 420

\* line 53: the fixed upward shift
adjust == 40

\* lines 33-37, in the order of the list
font_paths ==
  << "/System/Library/Fonts/Helvetica.ttc",
     "/usr/share/fonts/truetype/dejavu/DejaVuSans-Bold.ttf",
     "C:\\Windows\\Fonts\\arialbd.ttf" >>

\* lines 44 and 46: ImageFont.load_default()
load_default == "default"

\* line 59
output_path == "build/icon-source.png"

\* A file of build/ the script knows nothing about.
other_path == "build/icon.png"

\* What a font file can be when the script looks at it: absent, a font that
\* loads, or a file ImageFont.truetype raises on.
FontFileStates == {"missing", "ok", "corrupt"}

FontEnvs == [1..Len(font_paths) -> FontFileStates]

\* build/ when the script is started: absent, present but the output cannot be
\* opened for writing, or present and writable.
DirStates == {"missing", "readonly", "writable"}

VARIABLES
  run,          \* which invocation of the script this is
  pc,           \* the stage the run has reached
  image,        \* the canvas: row -> colour (<< >> before Image.new)
  y,            \* the gradient loop's row index
  fontFiles,    \* the font files as the lookup finds them, by index in font_paths
  fi,           \* index in font_paths of the candidate the lookup examines next
  font,         \* the variable font ("None" until assigned)
  fontVia,      \* the line that assigned font: truetype (41), loop (44), except (46)
  loadAttempts, \* the paths handed to ImageFont.truetype in this run, in order
  bbox,         \* the measured bounding box (<< >> before line 49)
  xy,           \* the text offset in half pixels (<< >> before lines 52-53)
  texts,        \* the draw.text calls applied to the canvas
  buildDir,     \* the directory build/
  files,        \* the files of build/: path -> content
  files0,       \* the files of build/ before the first run
  stdout,       \* the lines printed by this run
  exitStatus,   \* -1 while the run goes on, then the process's exit status
  written       \* what each successful save wrote, oldest first

vars == << run, pc, image, y, fontFiles, fi, font, fontVia, loadAttempts, bbox,
           xy, texts, buildDir, files, files0, stdout, exitStatus, written >>

----------------------------------------------------------------------------
\* Pure parts of the script

\* int(): truncation toward zero of the rational n / d, d > 0
IntTrunc(n, d) == IF n >= 0 THEN n \div d ELSE -((-n) \div d)

\* range(height), line 20
RowRangeShort == 0..(height - 2)
RowRange == 0..(height - 1)

\* lines 22-25: int(light[c] + (dark[c] - light[c]) * ratio), ratio = y / height.
\* Every intermediate value is a multiple of 1/1024 below 2^18, so the float
\* arithmetic is exact and the value is the rational
\* (light[c] * height + (dark[c] - light[c]) * y) / height.
ChannelFloorRatio(c, yy) ==
  light_orange[c] + (dark_orange[c] - light_orange[c]) * (yy \div height)
ChannelReversed(c, yy) ==
  IntTrunc(light_orange[c] * height + (light_orange[c] - dark_orange[c]) * yy, height)
Channel(c, yy) ==
  IntTrunc(light_orange[c] * height + (dark_orange[c] - light_orange[c]) * yy, height)

\* line 26: fill=(r, g, b)
RowColor(yy) == << Channel(1, yy), Channel(2, yy), Channel(3, yy) >>

\* os.path.exists(path), line 40
Exists(ff, i) == ff[i] # "missing"

\* lines 39-42 and 45-46 for candidate i: what one pass of the loop body does.
\* A missing path goes on to the next candidate; an existing one is loaded and
\* ends the loop (break), and a load that raises leaves the try block for the
\* except clause, which assigns the default font.
ExamineNoExcept(ff, i) ==
  IF ~Exists(ff, i) THEN [font |-> font, via |-> fontVia, tried |-> << >>, fi |-> i + 1, pc |-> "gradient_painted"]
  ELSE IF ff[i] = "ok"
    THEN [font |-> font_paths[i], via |-> "truetype", tried |-> << font_paths[i] >>, fi |-> i, pc |-> "font_resolved"]
    ELSE [font |-> "None", via |-> "none", tried |-> << font_paths[i] >>, fi |-> i, pc |-> "crashed"]
ExamineRetry(ff, i) ==
  IF ~Exists(ff, i) THEN [font |-> font, via |-> fontVia, tried |-> << >>, fi |-> i + 1, pc |-> "gradient_painted"]
  ELSE IF ff[i] = "ok"
    THEN [font |-> font_paths[i], via |-> "truetype", tried |-> << font_paths[i] >>, fi |-> i, pc |-> "font_resolved"]
    ELSE [font |-> "None", via |-> "none", tried |-> << font_paths[i] >>, fi |-> i + 1, pc |-> "gradient_painted"]
ExamineNoBreak(ff, i) ==
  IF ~Exists(ff, i) THEN [font |-> font, via |-> fontVia, tried |-> << >>, fi |-> i + 1, pc |-> "gradient_painted"]
  ELSE IF ff[i] = "ok"
    THEN [font |-> font_paths[i], via |-> "truetype", tried |-> << font_paths[i] >>, fi |-> i + 1, pc |-> "gradient_painted"]
    ELSE [font |-> load_default, via |-> "except", tried |-> << font_paths[i] >>, fi |-> i, pc |-> "font_resolved"]
Examine(ff, i) ==
  IF ~Exists(ff, i) THEN [font |-> font, via |-> fontVia, tried |-> << >>, fi |-> i + 1, pc |-> "gradient_painted"]
  ELSE IF ff[i] = "ok"
    THEN [font |-> font_paths[i], via |-> "truetype", tried |-> << font_paths[i] >>, fi |-> i, pc |-> "font_resolved"]
    ELSE [font |-> load_default, via |-> "except", tried |-> << font_paths[i] >>, fi |-> i, pc |-> "font_resolved"]

\* lines 43-44: if font is None: font = ImageFont.load_default()
LoopExitFontNoFallback(f) == f
LoopExitFont(f) == IF f = "None" THEN load_default ELSE f

\* line 49: draw.textbbox((0, 0), text, font=font), as (left, top, right,
\* bottom).  The box is a function of the font alone; the figures stand for the
\* metrics of the four fonts the script can end up with.
textbbox(f) ==
  CASE f = font_paths[1] -> << 20, 98, 672, 402 >>
    [] f = font_paths[2] -> << 29, 105, 737, 411 >>
    [] f = font_paths[3] -> << 31, 100, 689, 401 >>
    [] OTHER -> << 0, 3, 14, 11 >>

\* lines 50-53.  x and y are floats ending in .0 or .5; they are kept in half
\* pixels: 2x = width - text_width, 2y = height - text_height - 2 * 40.
TextOffset(bb) ==
  << width - (bb[3] - bb[1]), height - (bb[4] - bb[2]) - 2 * adjust >>

\* line 60: the PNG written for the canvas.  The encoding is lossless and
\* compresses: a run of equal rows is kept once, at its first row.
RowRuns(img) ==
  [r \in {q \in DOMAIN img : q = 0 \/ img[q] # img[q - 1]} |-> img[r]]

PngEncodeStamped(img, txt) ==
  [format |-> "PNG", mode |-> "RGB", size |-> << width, height >>,
   rows |-> RowRuns(img), overlay |-> txt, time |-> run]
PngEncode(img, txt) ==
  [format |-> "PNG", mode |-> "RGB", size |-> << width, height >>,
   rows |-> RowRuns(img), overlay |-> txt]

\* line 60: image.save(output_path, "PNG") opens the path itself for writing.
\* It raises when build/ is missing or the path cannot be opened, and then
\* nothing on disk changes.
SaveResultMkdir(dir, fs, content) ==
  IF dir = "readonly" THEN [ok |-> FALSE, dir |-> dir, files |-> fs]
  ELSE [ok |-> TRUE, dir |-> "writable", files |-> (output_path :> content) @@ fs]
SaveResultTemp(dir, fs, content) ==
  IF dir = "writable"
  THEN [ok |-> TRUE, dir |-> dir,
        files |-> (output_path :> content) @@ ("build/icon-source.png.tmp" :> content) @@ fs]
  ELSE [ok |-> FALSE, dir |-> dir, files |-> fs]
SaveResult(dir, fs, content) ==
  IF dir = "writable"
  THEN [ok |-> TRUE, dir |-> dir, files |-> (output_path :> content) @@ fs]
  ELSE [ok |-> FALSE, dir |-> dir, files |-> fs]

\* lines 61-65
Confirmation == "Icon saved to build/icon-source.png"
NextSteps ==
  << "", "Next steps:",
     "1. Install electron-icon-builder: npm install -g electron-icon-builder",
     "2. Generate icons: electron-icon-builder --input=build/icon-source.png --output=build",
     "3. This will create icon.icns (macOS), icon.ico (Windows), and icon.png (Linux)" >>

----------------------------------------------------------------------------
\* The state at the start of the first run

\* build/ before the first run: empty, or holding an earlier icon-source.png
\* and a file of another tool.
InitFiles ==
  { << >>, (output_path :> "stale") @@ (other_path :> "stale") }

Init ==
  /\ run = 1
  /\ pc = "start"
  /\ image = << >>
  /\ y = 0
  /\ fontFiles = [i \in 1..Len(font_paths) |-> "missing"]
  /\ fi = 1
  /\ font = "None"
  /\ fontVia = "none"
  /\ loadAttempts = << >>
  /\ bbox = << >>
  /\ xy = << >>
  /\ texts = {}
  /\ buildDir \in DirStates
  /\ files \in InitFiles
  /\ buildDir = "missing" => files = << >>
  /\ files0 = files
  /\ stdout = << >>
  /\ exitStatus = -1
  /\ written = << >>

----------------------------------------------------------------------------
\* The steps of a run

\* lines 11-13
Allocate ==
  /\ pc = "start"
  /\ image' = [r \in 0..(height - 1) |-> black]
  /\ y' = 0
  /\ pc' = "canvas_allocated"
  /\ UNCHANGED << run, fontFiles, fi, font, fontVia, loadAttempts, bbox, xy, texts,
                  buildDir, files, files0, stdout, exitStatus, written >>

\* lines 20-26: one pass of the gradient loop
PaintRow ==
  /\ pc = "canvas_allocated"
  /\ y \in RowRange
  /\ image' = [image EXCEPT ![y] = RowColor(y)]
  /\ y' = y + 1
  /\ UNCHANGED << run, pc, fontFiles, fi, font, fontVia, loadAttempts, bbox, xy,
                  texts, buildDir, files, files0, stdout, exitStatus, written >>

\* line 20 when range(height) is exhausted, then lines 29-38.  The font files
\* are read for the first time by the lookup that follows, so what they are is
\* fixed here.
GradientDone ==
  /\ pc = "canvas_allocated"
  /\ y \notin RowRange
  /\ pc' = "gradient_painted"
  /\ fontFiles' \in FontEnvs
  /\ fi' = 1
  /\ font' = "None"
  /\ UNCHANGED << run, image, y, fontVia, loadAttempts, bbox, xy, texts, buildDir,
                  files, files0, stdout, exitStatus, written >>

\* lines 39-42, 45-46: one pass of the lookup loop
ExaminePath ==
  /\ pc = "gradient_painted"
  /\ fi \in 1..Len(font_paths)
  /\ LET r == Examine(fontFiles, fi)
     IN /\ font' = r.font
        /\ fontVia' = r.via
        /\ loadAttempts' = loadAttempts \o r.tried
        /\ fi' = r.fi
        /\ pc' = r.pc
        /\ exitStatus' = IF r.pc = "crashed" THEN 1 ELSE exitStatus
  /\ UNCHANGED << run, image, y, fontFiles, bbox, xy, texts, buildDir, files,
                  files0, stdout, written >>

\* lines 43-44: the loop ran out of candidates
LookupExhausted ==
  /\ pc = "gradient_painted"
  /\ fi > Len(font_paths)
  /\ font' = LoopExitFont(font)
  /\ fontVia' = IF font' = font THEN fontVia ELSE "loop"
  /\ pc' = "font_resolved"
  /\ UNCHANGED << run, image, y, fontFiles, fi, loadAttempts, bbox, xy, texts,
                  buildDir, files, files0, stdout, exitStatus, written >>

\* lines 49-53
Measure ==
  /\ pc = "font_resolved"
  /\ bbox' = textbbox(font)
  /\ xy' = TextOffset(bbox')
  /\ pc' = "text_measured"
  /\ UNCHANGED << run, image, y, fontFiles, fi, font, fontVia, loadAttempts, texts,
                  buildDir, files, files0, stdout, exitStatus, written >>

\* line 56
DrawText ==
  /\ pc = "text_measured"
  /\ texts' = texts \cup {[text |-> text, xy |-> xy, font |-> font, fill |-> black]}
  /\ pc' = "text_drawn"
  /\ UNCHANGED << run, image, y, fontFiles, fi, font, fontVia, loadAttempts, bbox,
                  xy, buildDir, files, files0, stdout, exitStatus, written >>

\* line 60; an exception here is not caught and ends the process with status 1
Save ==
  /\ pc = "text_drawn"
  /\ LET r == SaveResult(buildDir, files, PngEncode(image, texts))
     IN /\ buildDir' = r.dir
        /\ files' = r.files
        /\ \/ /\ r.ok
              /\ pc' = "persisted"
              /\ written' = Append(written, [font |-> font, content |-> PngEncode(image, texts)])
              /\ UNCHANGED exitStatus
           \/ /\ ~r.ok
              /\ pc' = "crashed"
              /\ exitStatus' = 1
              /\ UNCHANGED written
  /\ UNCHANGED << run, image, y, fontFiles, fi, font, fontVia, loadAttempts, bbox,
                  xy, texts, files0, stdout >>

\* lines 61-65, then the end of the script
PrintNextSteps ==
  /\ pc = "persisted"
  /\ stdout' = stdout \o << Confirmation >> \o NextSteps
  /\ exitStatus' = 0
  /\ pc' = "done"
  /\ UNCHANGED << run, image, y, fontFiles, fi, font, fontVia, loadAttempts, bbox,
                  xy, texts, buildDir, files, files0, written >>

\* The script is invoked again: a new process, the same file system.
StartRun ==
  /\ pc \in {"done", "crashed"}
  /\ run < MaxRuns
  /\ run' = run + 1
  /\ pc' = "start"
  /\ image' = << >>
  /\ y' = 0
  /\ fontFiles' = [i \in 1..Len(font_paths) |-> "missing"]
  /\ fi' = 1
  /\ font' = "None"
  /\ fontVia' = "none"
  /\ loadAttempts' = << >>
  /\ bbox' = << >>
  /\ xy' = << >>
  /\ texts' = {}
  /\ stdout' = << >>
  /\ exitStatus' = -1
  /\ UNCHANGED << buildDir, files, files0, written >>

RunStep ==
  \/ Allocate
  \/ PaintRow
  \/ GradientDone
  \/ ExaminePath
  \/ LookupExhausted
  \/ Measure
  \/ DrawText
  \/ Save
  \/ PrintNextSteps

Next == RunStep \/ StartRun

Spec == Init /\ [][Next]_vars

\* One invocation of the script, from start to its exit.  The script is
\* single-threaded and never waits: a run that can take a step takes it.
RunSpec == Init /\ [][RunStep]_vars /\ WF_vars(RunStep)

----------------------------------------------------------------------------
\* Vocabulary of the properties

\* The run has left font resolution.
FontResolved ==
  \/ pc \in {"font_resolved", "text_measured", "text_drawn", "persisted", "done"}
  \/ pc = "crashed" /\ texts # {}

\* The gradient loop has finished.
GradientPainted == pc \notin {"start", "canvas_allocated"}

MacPath == "/System/Library/Fonts/Helvetica.ttc"
LinuxPath == "/usr/share/fonts/truetype/dejavu/DejaVuSans-Bold.ttf"
WinPath == "C:\\Windows\\Fonts\\arialbd.ttf"

\* The candidates in the documented order, with the state of each file.
MacFile == fontFiles[1]
LinuxFile == fontFiles[2]
WinFile == fontFiles[3]

NoCandidateExists == MacFile = "missing" /\ LinuxFile = "missing" /\ WinFile = "missing"

\* The first existing candidate in the order macOS, Linux, Windows ("" if none).
FirstExistingPath ==
  IF MacFile # "missing" THEN MacPath
  ELSE IF LinuxFile # "missing" THEN LinuxPath
  ELSE IF WinFile # "missing" THEN WinPath
  ELSE ""

FirstExistingState ==
  IF MacFile # "missing" THEN MacFile
  ELSE IF LinuxFile # "missing" THEN LinuxFile
  ELSE WinFile

AllRows == 0..1023

----------------------------------------------------------------------------
\* What holds of every state of a run, whatever the font files are.
C1_Safety ==
  /\ FontResolved =>
       /\ font # "None"
       /\ (NoCandidateExists \/ FirstExistingState = "corrupt") => font = "default"
  /\ pc = "crashed" => (texts # {} /\ buildDir # "writable")
  /\ pc = "done" =>
       /\ output_path \in DOMAIN files
       /\ files[output_path] = PngEncode(image, texts)
       /\ exitStatus = 0

\* C1: font resolution never fails the run.  Whatever candidate files exist and
\* whether or not loading raises, a run that has left font resolution holds a
\* usable font (the built-in default when no candidate exists or the load
\* raised); a run only ever ends abnormally in the save, with build/ not
\* writable; a finished run has written its canvas to build/icon-source.png
\* and exited with status 0; and with build/ writable a run that has painted
\* the gradient goes on to finish.
C1_FontResolutionNeverFails ==
  /\ []C1_Safety
  /\ (pc = "gradient_painted" /\ buildDir = "writable")
       ~> (pc = "done" /\ exitStatus = 0 /\ output_path \in DOMAIN files)

C1_Witness ==
  /\ pc = "done"
  /\ FirstExistingState = "corrupt"
  /\ font = "default"
  /\ files[output_path] = PngEncode(image, texts)

\* What holds while build/ is missing, and what a step may do then.
C2_MissingState ==
  buildDir = "missing" =>
    /\ files = << >>
    /\ pc \notin {"persisted", "done"}
    /\ \A k \in DOMAIN stdout : stdout[k] # Confirmation
    /\ exitStatus # 0
    /\ pc = "crashed" => exitStatus = 1

C2_MissingStep ==
  buildDir = "missing" => (buildDir' = "missing" /\ files' = files)

\* C2: with build/ missing the run ends abnormally.  build/ stays missing, no
\* file appears, the confirmation line is never printed, the run never reaches
\* persisted or done, and it ends crashed with status 1.
C2_MissingDirectoryFails ==
  /\ []C2_MissingState
  /\ [][C2_MissingStep]_vars
  /\ (buildDir = "missing" /\ pc = "start") ~> (pc = "crashed" /\ exitStatus = 1)

C2_Witness ==
  /\ buildDir = "missing"
  /\ pc = "crashed"
  /\ exitStatus = 1
  /\ texts # {}

\* C3 as stated: once the gradient is painted, row 0 is (255,136,0) and row
\* 1023 is strictly between the endpoints, never exactly (255,85,0).
C3_BottomRowNeverDark ==
  GradientPainted =>
    /\ image[0] = << 255, 136, 0 >>
    /\ image[1023] # << 255, 85, 0 >>
    /\ image[1023][2] > 85 /\ image[1023][2] < 136

\* C3 amended: once the gradient is painted, row 0 is exactly (255,136,0) and
\* row 1023 is exactly the dark-orange endpoint (255,85,0).  The interpolated
\* green value 136 - 51 * 1023 / 1024 lies strictly between 85 and 136, and
\* its truncation to an integer is 85.
C3_BottomRowIsDark ==
  GradientPainted =>
    /\ image[0] = << 255, 136, 0 >>
    /\ image[1023] = << 255, 85, 0 >>
    /\ 85 * 1024 < 136 * 1024 - 51 * 1023
    /\ 136 * 1024 - 51 * 1023 < 136 * 1024

C3_Witness ==
  /\ pc = "gradient_painted"
  /\ image[0] = << 255, 136, 0 >>
  /\ image[1023] = << 255, 85, 0 >>

\* C4: when every row has been painted, red is 255 on every row, blue is 0 on
\* every row, green never increases from a row to a later row, and every
\* channel value lies between the two endpoint values of its channel.
C4_GradientMonotone ==
  (pc = "canvas_allocated" /\ y = 1024) =>
    /\ \A r \in AllRows :
         /\ image[r][1] = 255
         /\ image[r][2] >= 85 /\ image[r][2] <= 136
         /\ image[r][3] = 0
         /\ image[r][3] = image[0][3]
    /\ LET green == [r \in AllRows |-> image[r][2]]
       IN \A y1 \in AllRows : \A y2 \in (y1 + 1)..1023 : green[y1] >= green[y2]

C4_Witness ==
  /\ pc = "canvas_allocated"
  /\ y = 1024
  /\ image[0][2] = 136
  /\ image[512][2] = 110
  /\ image[1023][2] = 85

\* What a step of a run may do to the canvas around the drawing of the label.
C5_Step ==
  run' = run =>
    /\ texts' # {} =>
         \A r \in AllRows :
           /\ image'[r] # black
           /\ image'[r] = << 255, IntTrunc(136 * 1024 - 51 * r, 1024), 0 >>
    /\ texts # {} => image' = image

\* C5: the label is drawn on a fully painted canvas.  A state in which "MB" has
\* been drawn has every one of the 1024 rows at its gradient colour, and from
\* then on the run paints no row.
C5_PaintedBeforeLabel == [][C5_Step]_vars

C5_Witness ==
  /\ pc = "text_drawn"
  /\ texts # {}
  /\ y = 1024
  /\ image[1023] # black

\* C6: idempotent overwrite.  After a successful run, and so after two in
\* succession, build/ holds the files it held before the first run plus
\* build/icon-source.png, that file is the latest run's image, and every other
\* file is as it was.
C6_IdempotentOverwrite ==
  (Len(written) >= 1 /\ pc \in {"persisted", "done"}) =>
    /\ DOMAIN files = DOMAIN files0 \cup {output_path}
    /\ files[output_path] = PngEncode(image, texts)
    /\ files[output_path] = written[Len(written)].content
    /\ \A p \in DOMAIN files \ {output_path} : files[p] = files0[p]

C6_Witness ==
  /\ run = 2
  /\ Len(written) = 2
  /\ pc = "done"
  /\ written[1].font # written[2].font
  /\ files[output_path] = written[2].content
  /\ files[output_path] # written[1].content

\* C7: determinism.  Any two runs that left font resolution with the same font
\* wrote identical images.
C7_Deterministic ==
  \A i \in DOMAIN written : \A j \in DOMAIN written :
    written[i].font = written[j].font => written[i].content = written[j].content

C7_Witness ==
  /\ Len(written) = 2
  /\ written[1].font = written[2].font
  /\ written[1].content = written[2].content
  /\ written[1].content.overlay # {}

\* C8: candidate order.  The font loaded is the first existing candidate in the
\* order macOS, Linux, Windows; nothing but that candidate is ever handed to
\* the loader, at most one load is attempted per run, and the lookup loop
\* itself assigns the default font only when no candidate exists.
C8_CandidateOrder ==
  /\ Len(loadAttempts) <= 1
  /\ \A k \in DOMAIN loadAttempts : loadAttempts[k] = FirstExistingPath
  /\ FontResolved =>
       /\ loadAttempts = IF NoCandidateExists THEN << >> ELSE << FirstExistingPath >>
       /\ fontVia = "truetype" => font = FirstExistingPath
       /\ font \in {MacPath, LinuxPath, WinPath} => font = FirstExistingPath
       /\ fontVia = "loop" <=> NoCandidateExists
       /\ fontVia = "loop" => font = "default"

C8_Witness ==
  /\ pc = "font_resolved"
  /\ MacFile = "missing"
  /\ LinuxFile = "ok"
  /\ WinFile = "ok"
  /\ font = LinuxPath
  /\ loadAttempts = << LinuxPath >>

\* The stages in their order, and what a step of a run may do to the stage.
C9_Stages ==
  << "start", "canvas_allocated", "gradient_painted", "font_resolved",
     "text_measured", "text_drawn", "persisted", "done" >>

C9_Rank(s) ==
  IF \E k \in DOMAIN C9_Stages : C9_Stages[k] = s
  THEN CHOOSE k \in DOMAIN C9_Stages : C9_Stages[k] = s
  ELSE 0

C9_Step ==
  run' = run =>
    /\ \/ pc' = pc
       \/ C9_Rank(pc) >= 1 /\ C9_Rank(pc') = C9_Rank(pc) + 1
       \/ pc = "text_drawn" /\ pc' = "crashed" /\ buildDir # "writable"
    /\ (pc = "gradient_painted" /\ pc' = "font_resolved") =>
         font' \in {MacPath, LinuxPath, WinPath, "default"}

\* C9: the run is a linear state machine.  Within a run every step stays in its
\* stage or moves to the next stage of start, canvas_allocated,
\* gradient_painted, font_resolved, text_measured, text_drawn, persisted, done
\* (or ends the run in the save when persisting fails); font resolution ends
\* with a named font or the default font; and with build/ writable every run
\* reaches done.
C9_LinearStateMachine ==
  /\ [][C9_Step]_vars
  /\ (pc = "start" /\ buildDir = "writable") ~> pc = "done"

C9_Witness ==
  /\ pc = "done"
  /\ font = "default"
  /\ fontVia = "except"
  /\ exitStatus = 0
  /\ Len(stdout) = 6

\* C10: when the first existing candidate fails to load, no later candidate is
\* tried: the run leaves font resolution with the default font, assigned by
\* the except clause, having attempted that one load only; a named font is in
\* use only when the first existing candidate loaded.
C10_NoRetryAfterLoadFailure ==
  FontResolved =>
    /\ (~NoCandidateExists /\ FirstExistingState = "corrupt") =>
         /\ font = "default"
         /\ fontVia = "except"
         /\ loadAttempts = << FirstExistingPath >>
    /\ font \in {MacPath, LinuxPath, WinPath} =>
         /\ FirstExistingState = "ok"
         /\ font = FirstExistingPath

C10_Witness ==
  /\ pc = "font_resolved"
  /\ MacFile = "corrupt"
  /\ LinuxFile = "ok"
  /\ WinFile = "ok"
  /\ font = "default"
  /\ loadAttempts = << MacPath >>

====
